---- MODULE Spec2Model ----
(***************************************************************************)
(* Verification model of bernd7055/tools:                                  *)
(*   replace_shaders_and_mats_cs1.py / find_all_shaders.py  (the shader    *)
(*       pipeline: resolution, staging, pooled unpack, default shaders,    *)
(*       phase 3),                                                         *)
(*   replace_material.py (merge_dicts / merge_mats),                       *)
(*   port_ops_file_cs1.py (AssetPorter.port and the batch driver).         *)
(* Three specifications share the variables: Spec (the shader pipeline),   *)
(* SpecMerge (the pure merge functions) and SpecPort (the orchestrator).   *)
(***************************************************************************)
EXTENDS Integers, Sequences, FiniteSets, TLC

\* ------------------------------------------------------------------------
\* Bounds of the model
\* ------------------------------------------------------------------------
MaxBatch == 2
MaxWorkers == 1
MaxRuns == 2

\* ------------------------------------------------------------------------
\* Names
\* ------------------------------------------------------------------------
ShaderOrder == <<"sX", "sY", "sZ", "sW">>
ShaderNames == {ShaderOrder[i] : i \in 1..MaxBatch}
NoPkg == "None"
well_known_asset == "M_C0120.pkg"
Pkgs == {"pkgA.pkg", well_known_asset}
\* two package names that differ only in their suffix
SameStemPkgs == {"pkgA.pkg", "pkgA.bin"}
TMP_DIR == "tmp"
SimFail == "CalledProcessError"
NotFound == "None"
SourceDirs == <<"D3D11", "D3D11_us">>

\* Path(p).stem / Path(p).with_suffix("")
Stem(p) ==
    CASE p = "pkgA.pkg" -> "pkgA"
      [] p = "pkgA.bin" -> "pkgA"
      [] p = "M_C0120.pkg" -> "M_C0120"
      [] OTHER -> p

\* a location that keeps the suffix of the package name
DonorLocation_name(p) == <<TMP_DIR, p>>

\* TMP_DIR / Path(cs1_pkg).stem
DonorLocation(p) == <<TMP_DIR, Stem(p)>>

\* the list of default shaders, in the order of the source
DEFAULT_SHADERS == <<"ed8.fx", "ed8_minimap.fx#47C02C9B2DC49A1EAA38DC726CC42326", "ed8_minimap.fx">>

Range(s) == {s[i] : i \in 1..Len(s)}

\* all batches the glob can return: lists of distinct shader names
Batches == {s \in UNION {[1..n -> ShaderNames] : n \in 0..MaxBatch} :
               \A i, j \in 1..Len(s) : i # j => s[i] # s[j]}

\* ------------------------------------------------------------------------
\* State
\* ------------------------------------------------------------------------
VARIABLES
    \* --- shader pipeline (main of replace_shaders_and_mats_cs1.py and of
    \* --- find_all_shaders.py)
    pc,                 \* position of the main thread
    run,                \* number of the current run of the script
    shader_db,          \* shader name -> package name, NoPkg when absent
    shaders,            \* the batch: list of shader base names
    idx,                \* loop index of find_appropriate_cs1_shaders
    packages_to_unpack, \* set of package names
    shader_mapping,     \* list of <<original, resolved, donorLocation>>
    togo,               \* packages the "for cs1_pkg" loop has still to visit
    job,                \* future of each package: none/pending/unpacking/done/failed
    seen,               \* futures whose result() the main thread has taken
    default_shaders,    \* the list default_shaders
    tmpFiles,           \* package files in TMP_DIR
    tmpDirs,            \* unpacked-output directories in TMP_DIR
    invoked,            \* external unpacker invocations per package, this run
    simCalls,           \* shaders the similarity search was invoked for, this run
    lastSim,            \* what the similarity search answered for the last shader, "" if not asked
    referenced,         \* the default shaders found in the map directory
    catalog,            \* progress of the catalog fallback: no/staged/unpacked
    unpackedOk,         \* packages whose external unpack succeeded in an earlier run
    phase3,             \* what phase 3 has done so far
    exit,               \* how the run ended
    searched            \* packages find_cs1_asset_path was called for, this run

pipeVars == <<pc, run, shader_db, shaders, idx, packages_to_unpack, shader_mapping,
              togo, job, seen, default_shaders, tmpFiles, tmpDirs, invoked,
              simCalls, lastSim, referenced, catalog, unpackedOk, phase3, exit,
              searched>>

\* --- merge_dicts / merge_mats
VARIABLES
    mpc,        \* "dicts", "dicts_done", "mats" or "KeyError"
    script,     \* whose merge_mats: "cs1" (replace_shaders_and_mats_cs1.py) or "rm"
    d_dst,      \* merge_dicts: the target map
    d_src,      \* merge_dicts: the donor map
    d_res,      \* merge_dicts: the returned map
    m_dst,      \* merge_mats: the target material, changed in place
    m_src,      \* merge_mats: the donor material
    m_in,       \* the target material as it was before the first merge
    m_once,     \* the target material after the first merge
    merges,     \* number of completed merge_mats calls
    csv_rows,   \* load_shader_database: the rows csv.reader yields for the file
    database    \* load_shader_database: the returned dictionary

mergeVars == <<mpc, script, d_dst, d_src, d_res, m_dst, m_src, m_in, m_once, merges,
               csv_rows, database>>

\* --- AssetPorter.port and the batch driver
VARIABLES
    ppc,            \* position of the driver / of port: "loop" is the for loop of main
    batch,          \* the set assets collected from the .ops files
    assets,         \* assets the for loop has still to visit
    cur,            \* the asset being ported (the last one ported)
    stage,          \* last state each asset job reached
    failedAt,       \* the stage at which an asset's job failed, "" if it did not
    logger,         \* log_lines of the Logger of the current port call
    error_log,      \* main's error_log: list of <<asset, log>>
    errors_txt,     \* what this run has written to errors.txt, NoFile if nothing
    out_dir,        \* packages in the output directory
    linux,          \* os.path.exists('/proc/self')
    flip_textures_vertically,  \* the --texture-flipping option
    texturesLeft,   \* textures of the current asset still to flip
    flips,          \* invocations of texconv.exe per asset
    toolsStaged,    \* number of pack tools copied into the asset directory
    fatal,          \* why the run ended early, "" if it did not
    prun,           \* number of the current run of the driver
    ported,         \* assets whose package a port call has copied to out_dir
    spawned,        \* external programs each asset's port call has run
    tmp_src         \* packages in tmp_dir/src

portVars == <<ppc, batch, assets, cur, stage, failedAt, logger, error_log, errors_txt,
              out_dir, linux, flip_textures_vertically, texturesLeft, flips,
              toolsStaged, fatal, prun, ported, spawned, tmp_src>>

\* --- replace_materials and the main block of replace_material.py
VARIABLES
    rpc,            \* position: "group", "merge", "done" or "failed"
    rscript,        \* "cs1" (replace_shaders_and_mats_cs1.py) or "rm" (replace_material.py)
    mapping_rows,   \* the shader mappings: list of <<original, resolved, donorLocation>>
    metadata_file,  \* the materials table of the metadata file on disk
    mats_read,      \* the materials table as it was read
    mats,           \* metadata["materials"], changed in place
    stm,            \* the groups of files_to_shaders_to_materials still to merge
    merged,         \* number of groups merged so far
    copied,         \* shader files copied into map_dir
    written,        \* the table written at the end, NoTable if nothing was
    rexit           \* how the call ended

replVars == <<rpc, rscript, mapping_rows, metadata_file, mats_read, mats, stm,
              merged, copied, written, rexit>>

vars == <<pipeVars, mergeVars, portVars, replVars>>


\* ------------------------------------------------------------------------
\* Pure helpers of the shader pipeline
\* ------------------------------------------------------------------------

\* shader_db.get(name)
Lookup(db, name) == IF name \in DOMAIN db THEN db[name] ELSE NoPkg

\* what the similarity search can print: a known name or some other text
SimAnswers == ShaderNames \cup {"sOther", SimFail}

\* a resolver with a third fallback: an answer that is not in the database
\* is attributed to the well-known package
ResolveOutcome_fallback(db, base, sim) ==
    LET direct == Lookup(db, base) IN
    IF direct # NoPkg
    THEN [status |-> "ok", closest |-> base, pkg |-> direct, asked |-> FALSE]
    ELSE IF sim = SimFail
    THEN [status |-> "SimilarityFailed", closest |-> base, pkg |-> NoPkg, asked |-> TRUE]
    ELSE IF Lookup(db, sim) = NoPkg
    THEN [status |-> "ok", closest |-> sim, pkg |-> well_known_asset, asked |-> TRUE]
    ELSE [status |-> "ok", closest |-> sim, pkg |-> Lookup(db, sim), asked |-> TRUE]

\* a resolver that asks the similarity search first and looks the name up
\* only when the answer is not in the database
ResolveOutcome_simfirst(db, base, sim) ==
    IF sim # SimFail /\ Lookup(db, sim) # NoPkg
    THEN [status |-> "ok", closest |-> sim, pkg |-> Lookup(db, sim), asked |-> TRUE]
    ELSE IF Lookup(db, base) # NoPkg
    THEN [status |-> "ok", closest |-> base, pkg |-> Lookup(db, base), asked |-> TRUE]
    ELSE [status |-> "UnresolvableShader", closest |-> sim, pkg |-> NoPkg, asked |-> TRUE]

\* one iteration of the loop of find_appropriate_cs1_shaders: sim is the
\* answer the similarity search gives if it is asked
ResolveOutcome(db, base, sim) ==
    LET direct == Lookup(db, base) IN
    IF direct # NoPkg
    THEN [status |-> "ok", closest |-> base, pkg |-> direct, asked |-> FALSE]
    ELSE IF sim = SimFail
    THEN [status |-> "SimilarityFailed", closest |-> base, pkg |-> NoPkg, asked |-> TRUE]
    ELSE IF Lookup(db, sim) = NoPkg
    THEN [status |-> "UnresolvableShader", closest |-> sim, pkg |-> NoPkg, asked |-> TRUE]
    ELSE [status |-> "ok", closest |-> sim, pkg |-> Lookup(db, sim), asked |-> TRUE]

\* find_cs1_asset_path: d3d11 and d3d11_us are the package files present
\* in the two candidate directories of the installation
find_cs1_asset_path(d3d11, d3d11_us, pkg_name) ==
    IF pkg_name \in d3d11 THEN SourceDirs[1]
    ELSE IF pkg_name \in d3d11_us THEN SourceDirs[2]
    ELSE NotFound

\* unpack_package without the check of the output directory
AlreadyUnpacked_never(p) == FALSE

\* unpack_package with the check inverted
AlreadyUnpacked_inverted(p) == Stem(p) \notin tmpDirs

\* os.path.exists(pkg_path_in_tmp.with_suffix("")) in unpack_package
AlreadyUnpacked(p) == Stem(p) \in tmpDirs

\* the package names the database of this behaviour can name
Packages == DOMAIN job

\* number of worker threads busy in unpack_package
Busy == Cardinality({p \in Packages : job[p] = "unpacking"})

\* a staging loop that looks for the source of every package
AlreadyStaged_never(p) == FALSE

\* pkg_path_in_tmp.is_file() in the staging loop
AlreadyStaged(p) == p \in tmpFiles

\* a pool that starts a thread for every submitted job
WorkerFree_unbounded == TRUE

\* ThreadPoolExecutor(max_workers=MAX_WORKERS): a queued job starts only
\* when fewer than max_workers threads are busy
WorkerFree == Busy < MaxWorkers

\* a with block that is left without waiting for the futures
JoinBarrier_nowait == TRUE

\* "for future in as_completed(futures): future.result()" has gone through
\* every future
JoinBarrier == \A p \in packages_to_unpack : p \in seen

\* shutdown(wait=True, cancel_futures=True): queued jobs are dropped
ShutdownWait_cancel == \A p \in Packages : job[p] # "unpacking"

\* executor.shutdown(wait=True) at the exit of the with block
ShutdownWait == \A p \in Packages : job[p] \in {"none", "done", "failed"}

\* ------------------------------------------------------------------------
\* Init of the shader pipeline
\* ------------------------------------------------------------------------
PipeInitOver(P) ==
    /\ pc = "resolve"
    /\ run = 1
    /\ shader_db \in [ShaderNames -> P \cup {NoPkg}]
    /\ shaders \in Batches
    /\ idx = 1
    /\ packages_to_unpack = {}
    /\ shader_mapping = <<>>
    /\ togo = {}
    /\ job = [p \in P |-> "none"]
    /\ seen = {}
    /\ default_shaders = <<>>
    /\ tmpFiles = {}
    /\ tmpDirs = {}
    /\ invoked = [p \in P |-> 0]
    /\ simCalls = {}
    /\ lastSim = ""
    /\ referenced = {}
    /\ catalog = "no"
    /\ unpackedOk = {}
    /\ phase3 = "none"
    /\ exit = "running"
    /\ searched = {}

\* the database names pkgA.pkg and M_C0120.pkg
PipeInit == PipeInitOver(Pkgs)

\* the database names two packages with the same stem
SameStemInit == PipeInitOver(SameStemPkgs)

\* ------------------------------------------------------------------------
\* Phase 1: find_appropriate_cs1_shaders
\* ------------------------------------------------------------------------
ResolveShader ==
    /\ pc = "resolve"
    /\ idx <= Len(shaders)
    /\ \E sim \in SimAnswers :
         LET base == shaders[idx]
             r == ResolveOutcome(shader_db, base, sim) IN
         /\ simCalls' = IF r.asked THEN simCalls \cup {base} ELSE simCalls
         /\ lastSim' = IF r.asked THEN sim ELSE ""
         /\ IF r.status = "ok"
            THEN /\ packages_to_unpack' = packages_to_unpack \cup {r.pkg}
                 /\ shader_mapping' = Append(shader_mapping,
                                             <<base, r.closest, DonorLocation(r.pkg)>>)
                 /\ idx' = idx + 1
                 /\ UNCHANGED <<pc, exit>>
            ELSE /\ pc' = "failed"
                 /\ exit' = r.status
                 /\ UNCHANGED <<packages_to_unpack, shader_mapping, idx>>
    /\ UNCHANGED <<referenced, run, shader_db, shaders, togo, job, seen, default_shaders,
                   tmpFiles, tmpDirs, invoked, catalog, unpackedOk, phase3>>
    /\ UNCHANGED searched
    /\ UNCHANGED <<mergeVars, portVars, replVars>>

\* a main that starts staging as soon as one shader has been resolved
ResolveDone_eager ==
    /\ pc = "resolve"
    /\ idx > 1 \/ idx > Len(shaders)
    /\ pc' = "stage"
    /\ togo' = packages_to_unpack
    /\ UNCHANGED <<lastSim, referenced, run, shader_db, shaders, idx, packages_to_unpack, shader_mapping,
                   job, seen, default_shaders, tmpFiles, tmpDirs, invoked, simCalls,
                   catalog, unpackedOk, phase3, exit>>
    /\ UNCHANGED searched
    /\ UNCHANGED <<mergeVars, portVars, replVars>>

\* find_appropriate_cs1_shaders has returned: main enters the with block
ResolveDone ==
    /\ pc = "resolve"
    /\ idx > Len(shaders)
    /\ pc' = "stage"
    /\ togo' = packages_to_unpack
    /\ UNCHANGED <<lastSim, referenced, run, shader_db, shaders, idx, packages_to_unpack, shader_mapping,
                   job, seen, default_shaders, tmpFiles, tmpDirs, invoked, simCalls,
                   catalog, unpackedOk, phase3, exit>>
    /\ UNCHANGED searched
    /\ UNCHANGED <<mergeVars, portVars, replVars>>

\* ------------------------------------------------------------------------
\* Phase 2: staging and the worker pool
\* ------------------------------------------------------------------------

\* one iteration of "for cs1_pkg in packages_to_unpack" inside the with block
StageAndSubmit(p) ==
    /\ pc = "stage"
    /\ p \in togo
    /\ \E d3d11 \in SUBSET {p}, d3d11_us \in SUBSET {p} :
         LET source_pkg_path == find_cs1_asset_path(d3d11, d3d11_us, p) IN
         /\ searched' = IF AlreadyStaged(p) THEN searched ELSE searched \cup {p}
         /\ IF AlreadyStaged(p) \/ source_pkg_path # NotFound
            THEN /\ tmpFiles' = tmpFiles \cup {p}
                 /\ job' = [job EXCEPT ![p] = "pending"]
                 /\ togo' = togo \ {p}
                 /\ UNCHANGED <<pc, exit>>
            ELSE /\ pc' = "shutdown"
                 /\ exit' = "SourcePackageNotFound"
                 /\ UNCHANGED <<tmpFiles, job, togo>>
    /\ UNCHANGED <<lastSim, referenced, run, shader_db, shaders, idx, packages_to_unpack, shader_mapping,
                   seen, default_shaders, tmpDirs, invoked, simCalls, catalog,
                   unpackedOk, phase3>>
    /\ UNCHANGED <<mergeVars, portVars, replVars>>

StageDone ==
    /\ pc = "stage"
    /\ togo = {}
    /\ pc' = "join"
    /\ UNCHANGED <<lastSim, referenced, run, shader_db, shaders, idx, packages_to_unpack, shader_mapping,
                   togo, job, seen, default_shaders, tmpFiles, tmpDirs, invoked,
                   simCalls, catalog, unpackedOk, phase3, exit>>
    /\ UNCHANGED searched
    /\ UNCHANGED <<mergeVars, portVars, replVars>>

\* a pool thread takes a queued job and runs unpack_package up to the
\* start of the external unpacker
WorkerRun(p) ==
    /\ job[p] = "pending"
    /\ WorkerFree
    /\ IF AlreadyUnpacked(p)
       THEN /\ job' = [job EXCEPT ![p] = "done"]
            /\ UNCHANGED invoked
       ELSE /\ job' = [job EXCEPT ![p] = "unpacking"]
            /\ invoked' = [invoked EXCEPT ![p] = @ + 1]
    /\ UNCHANGED <<lastSim, referenced, pc, run, shader_db, shaders, idx, packages_to_unpack, shader_mapping,
                   togo, seen, default_shaders, tmpFiles, tmpDirs, simCalls, catalog,
                   unpackedOk, phase3, exit>>
    /\ UNCHANGED searched
    /\ UNCHANGED <<mergeVars, portVars, replVars>>

\* the external unpacker exits: with 0 it has produced the output directory;
\* non-zero becomes sys.exit(1) in the worker, stored in the future
UnpackExit(p) ==
    /\ job[p] = "unpacking"
    /\ \E ok \in BOOLEAN :
         IF ok
         THEN /\ job' = [job EXCEPT ![p] = "done"]
              /\ tmpDirs' = tmpDirs \cup {Stem(p)}
         ELSE /\ job' = [job EXCEPT ![p] = "failed"]
              /\ UNCHANGED tmpDirs
    /\ UNCHANGED <<unpackedOk, lastSim, referenced, pc, run, shader_db, shaders, idx, packages_to_unpack, shader_mapping,
                   togo, seen, default_shaders, tmpFiles, invoked, simCalls, catalog,
                   phase3, exit>>
    /\ UNCHANGED searched
    /\ UNCHANGED <<mergeVars, portVars, replVars>>

\* as_completed yields a finished future and the main thread takes its result
JoinTake(p) ==
    /\ pc = "join"
    /\ p \in packages_to_unpack \ seen
    /\ job[p] \in {"done", "failed"}
    /\ IF job[p] = "failed"
       THEN /\ pc' = "shutdown"
            /\ exit' = "UnpackFailure"
            /\ UNCHANGED seen
       ELSE /\ seen' = seen \cup {p}
            /\ UNCHANGED <<pc, exit>>
    /\ UNCHANGED <<lastSim, referenced, run, shader_db, shaders, idx, packages_to_unpack, shader_mapping,
                   togo, job, default_shaders, tmpFiles, tmpDirs, invoked, simCalls,
                   catalog, unpackedOk, phase3>>
    /\ UNCHANGED searched
    /\ UNCHANGED <<mergeVars, portVars, replVars>>

\* the with block is left normally
JoinDone ==
    /\ pc = "join"
    /\ JoinBarrier
    /\ pc' = "defaults"
    /\ UNCHANGED <<lastSim, referenced, run, shader_db, shaders, idx, packages_to_unpack, shader_mapping,
                   togo, job, seen, default_shaders, tmpFiles, tmpDirs, invoked,
                   simCalls, catalog, unpackedOk, phase3, exit>>
    /\ UNCHANGED searched
    /\ UNCHANGED <<mergeVars, portVars, replVars>>

\* the with block is left by SystemExit: the pool is shut down with
\* wait=True and the process ends with status 1
Shutdown ==
    /\ pc = "shutdown"
    /\ ShutdownWait
    /\ pc' = "failed"
    /\ UNCHANGED <<lastSim, referenced, run, shader_db, shaders, idx, packages_to_unpack, shader_mapping,
                   togo, job, seen, default_shaders, tmpFiles, tmpDirs, invoked,
                   simCalls, catalog, unpackedOk, phase3, exit>>
    /\ UNCHANGED searched
    /\ UNCHANGED <<mergeVars, portVars, replVars>>

\* ------------------------------------------------------------------------
\* Default shaders and the catalog fallback
\* ------------------------------------------------------------------------

\* [d for d in lst if d in keep], keeping the order of the list
Filter(lst, keep) == SelectSeq(lst, LAMBDA d : d \in keep)

\* the rows appended for the default shaders found in one package
DefaultRows(found, p) == [i \in 1..Len(found) |-> <<found[i], found[i], DonorLocation(p)>>]

\* the cases of the default shader files present in the map directory:
\* none, the first of the list, the first and the last
MapDirCases == {{}, {DEFAULT_SHADERS[1]}, {DEFAULT_SHADERS[1], DEFAULT_SHADERS[3]}}

\* default_shaders = [d for d in default_shaders if os.path.exists(MAP_NAME/d.phyre)]
DefaultsReferenced ==
    /\ pc = "defaults"
    /\ \E inMap \in MapDirCases :
         /\ default_shaders' = Filter(DEFAULT_SHADERS, inMap)
         /\ referenced' = inMap
    /\ togo' = packages_to_unpack
    /\ pc' = "scan"
    /\ UNCHANGED <<lastSim, run, shader_db, shaders, idx, packages_to_unpack, shader_mapping,
                   job, seen, tmpFiles, tmpDirs, invoked, simCalls, catalog,
                   unpackedOk, phase3, exit>>
    /\ UNCHANGED searched
    /\ UNCHANGED <<mergeVars, portVars, replVars>>

\* one iteration of the second "for cs1_pkg in packages_to_unpack": inPkg
\* are the default shader files present in TMP_DIR/base/base
ScanPackage(p) ==
    /\ pc = "scan"
    /\ p \in togo
    /\ \E inPkg \in SUBSET Range(default_shaders) :
         LET found == Filter(default_shaders, inPkg) IN
         /\ (inPkg # {} => Stem(p) \in tmpDirs)
         /\ shader_mapping' = shader_mapping \o DefaultRows(found, p)
         /\ default_shaders' = Filter(default_shaders, Range(default_shaders) \ Range(found))
    /\ togo' = togo \ {p}
    /\ UNCHANGED <<lastSim, referenced, pc, run, shader_db, shaders, idx, packages_to_unpack, job, seen,
                   tmpFiles, tmpDirs, invoked, simCalls, catalog, unpackedOk, phase3,
                   exit>>
    /\ UNCHANGED searched
    /\ UNCHANGED <<mergeVars, portVars, replVars>>

\* a fallback that is taken whatever the scan found
NeedCatalog_always == TRUE

\* "if len(default_shaders) != 0"
NeedCatalog == Len(default_shaders) # 0

ScanDone ==
    /\ pc = "scan"
    /\ togo = {}
    /\ pc' = IF NeedCatalog THEN "catalog" ELSE "phase3"
    /\ UNCHANGED <<lastSim, referenced, run, shader_db, shaders, idx, packages_to_unpack, shader_mapping,
                   togo, job, seen, default_shaders, tmpFiles, tmpDirs, invoked,
                   simCalls, catalog, unpackedOk, phase3, exit>>
    /\ UNCHANGED searched
    /\ UNCHANGED <<mergeVars, portVars, replVars>>

\* the fallback: locate M_C0120.pkg, copy it to TMP_DIR and call
\* unpack_package on it in the main thread.  Without a source package the
\* message names cs1_pkg, which is unbound when the batch has no package.
CatalogStage ==
    /\ pc = "catalog"
    /\ \E d3d11 \in SUBSET {well_known_asset}, d3d11_us \in SUBSET {well_known_asset} :
         LET source_pkg_path == find_cs1_asset_path(d3d11, d3d11_us, well_known_asset) IN
         /\ searched' = searched \cup {well_known_asset}
         /\ IF source_pkg_path # NotFound
            THEN /\ tmpFiles' = tmpFiles \cup {well_known_asset}
                 /\ catalog' = "staged"
                 /\ UNCHANGED exit
                 /\ IF AlreadyUnpacked(well_known_asset)
                    THEN /\ pc' = "attribute"
                         /\ UNCHANGED invoked
                    ELSE /\ pc' = "catalog_unpacking"
                         /\ invoked' = [invoked EXCEPT ![well_known_asset] = @ + 1]
            ELSE /\ pc' = "failed"
                 /\ exit' = IF packages_to_unpack = {} THEN "NameError"
                            ELSE "SourcePackageNotFound"
                 /\ UNCHANGED <<tmpFiles, catalog, invoked>>
    /\ UNCHANGED <<lastSim, referenced, run, shader_db, shaders, idx, packages_to_unpack, shader_mapping,
                   togo, job, seen, default_shaders, tmpDirs, simCalls, unpackedOk,
                   phase3>>
    /\ UNCHANGED <<mergeVars, portVars, replVars>>

CatalogUnpackExit ==
    /\ pc = "catalog_unpacking"
    /\ \E ok \in BOOLEAN :
         IF ok
         THEN /\ tmpDirs' = tmpDirs \cup {Stem(well_known_asset)}
              /\ catalog' = "unpacked"
              /\ pc' = "attribute"
              /\ UNCHANGED exit
         ELSE /\ pc' = "failed"
              /\ exit' = "UnpackFailure"
              /\ UNCHANGED <<tmpDirs, catalog>>
    /\ UNCHANGED <<unpackedOk, lastSim, referenced, run, shader_db, shaders, idx, packages_to_unpack, shader_mapping,
                   togo, job, seen, default_shaders, tmpFiles, invoked, simCalls,
                   phase3>>
    /\ UNCHANGED searched
    /\ UNCHANGED <<mergeVars, portVars, replVars>>

\* the names main() binds before "for d in defaults:"; defaults is not one
MainNames == {"parser", "args", "CS1_ROOT", "MAP_NAME", "ALL_SHADERS_CSV", "TMP_DIR",
              "MAX_WORKERS", "shader_db", "map_dir", "shaders", "packages_to_unpack",
              "shader_mapping", "executor", "futures", "default_shaders",
              "well_known_asset", "source_pkg_path", "dest_path"}

\* "for d in defaults: shader_mapping.append((d, d, dest_path.with_suffix("")))"
CatalogAttribute ==
    /\ pc = "attribute"
    /\ IF "defaults" \in MainNames
       THEN /\ shader_mapping' = shader_mapping \o DefaultRows(default_shaders, well_known_asset)
            /\ pc' = "phase3"
            /\ UNCHANGED exit
       ELSE /\ pc' = "failed"
            /\ exit' = "NameError"
            /\ UNCHANGED shader_mapping
    /\ UNCHANGED <<lastSim, referenced, run, shader_db, shaders, idx, packages_to_unpack, togo, job, seen,
                   default_shaders, tmpFiles, tmpDirs, invoked, simCalls, catalog,
                   unpackedOk, phase3>>
    /\ UNCHANGED searched
    /\ UNCHANGED <<mergeVars, portVars, replVars>>

\* ------------------------------------------------------------------------
\* Phase 3
\* ------------------------------------------------------------------------

\* find_all_shaders.py: open shader_mapping.csv and write the header
WriteMappingHeader ==
    /\ pc = "phase3"
    /\ phase3' = "mapping_csv"
    /\ idx' = 1
    /\ pc' = "copy"
    /\ UNCHANGED <<lastSim, referenced, run, shader_db, shaders, packages_to_unpack, shader_mapping, togo,
                   job, seen, default_shaders, tmpFiles, tmpDirs, invoked, simCalls,
                   catalog, unpackedOk, exit>>
    /\ UNCHANGED searched
    /\ UNCHANGED <<mergeVars, portVars, replVars>>

\* the shader file of this row was seen in the unpacked package before: by
\* the default-shader scan, or by an earlier row naming the same file
SeenShaderFile(i) ==
    \/ shader_mapping[i][2] \in Range(DEFAULT_SHADERS)
    \/ \E j \in 1..(i - 1) : /\ shader_mapping[j][2] = shader_mapping[i][2]
                             /\ shader_mapping[j][3] = shader_mapping[i][3]

\* find_all_shaders.py: one row of the mapping file and the copy of its shader
CopyShader ==
    /\ pc = "copy"
    /\ idx <= Len(shader_mapping)
    /\ \E is_file \in BOOLEAN :
         /\ SeenShaderFile(idx) => is_file
         /\ IF is_file
            THEN /\ idx' = idx + 1
                 /\ UNCHANGED <<pc, exit>>
            ELSE /\ pc' = "failed"
                 /\ exit' = "ShaderFileMissing"
                 /\ UNCHANGED idx
    /\ UNCHANGED <<lastSim, referenced, run, shader_db, shaders, packages_to_unpack, shader_mapping, togo,
                   job, seen, default_shaders, tmpFiles, tmpDirs, invoked, simCalls,
                   catalog, unpackedOk, phase3>>
    /\ UNCHANGED searched
    /\ UNCHANGED <<mergeVars, portVars, replVars>>

CopyDone ==
    /\ pc = "copy"
    /\ idx > Len(shader_mapping)
    /\ pc' = "done"
    /\ exit' = "ok"
    /\ UNCHANGED <<lastSim, referenced, run, shader_db, shaders, idx, packages_to_unpack, shader_mapping,
                   togo, job, seen, default_shaders, tmpFiles, tmpDirs, invoked,
                   simCalls, catalog, unpackedOk, phase3>>
    /\ UNCHANGED searched
    /\ UNCHANGED <<mergeVars, portVars, replVars>>

\* replace_shaders_and_mats_cs1.py: the call of replace_materials, by its outcome
ReplaceOutcomes == {"ok", "ShaderFileMissing", "KeyError"}

CallReplaceMaterials ==
    /\ pc = "phase3"
    /\ phase3' = "replace_materials"
    /\ \E outcome \in ReplaceOutcomes :
         /\ exit' = outcome
         /\ pc' = IF outcome = "ok" THEN "done" ELSE "failed"
    /\ UNCHANGED <<lastSim, referenced, run, shader_db, shaders, idx, packages_to_unpack, shader_mapping,
                   togo, job, seen, default_shaders, tmpFiles, tmpDirs, invoked,
                   simCalls, catalog, unpackedOk>>
    /\ UNCHANGED searched
    /\ UNCHANGED <<mergeVars, portVars, replVars>>

\* the script is run again on the same batch, database and working directory
Rerun ==
    /\ pc \in {"done", "failed"}
    /\ run < MaxRuns
    /\ run' = run + 1
    /\ pc' = "resolve"
    /\ idx' = 1
    /\ packages_to_unpack' = {}
    /\ shader_mapping' = <<>>
    /\ togo' = {}
    /\ job' = [p \in Packages |-> "none"]
    /\ seen' = {}
    /\ default_shaders' = <<>>
    /\ invoked' = [p \in Packages |-> 0]
    /\ simCalls' = {}
    /\ lastSim' = ""
    /\ referenced' = {}
    /\ catalog' = "no"
    /\ phase3' = "none"
    /\ exit' = "running"
    /\ searched' = {}
    /\ unpackedOk' = unpackedOk \cup {p \in Packages : invoked[p] = 1 /\ Stem(p) \in tmpDirs}
    /\ UNCHANGED <<shader_db, shaders, tmpFiles, tmpDirs>>
    /\ UNCHANGED <<mergeVars, portVars, replVars>>

\* ------------------------------------------------------------------------
\* merge_dicts and merge_mats (replace_shaders_and_mats_cs1.py and
\* replace_material.py)
\* ------------------------------------------------------------------------

MaxKeys == 3
MaxMerges == 2

KeyOrder == <<"a", "b", "c", "d">>
Keys == {KeyOrder[i] : i \in 1..MaxKeys}
TargetVals == {1, 2}
DonorVals == {2, 3, 9}
EmptyMap == [k \in {} |-> 0]

\* maps with keys among K and values among V
MapsOver(K, V) == UNION {[D -> V] : D \in SUBSET K}

\* the keys of a dict in iteration order
KeySeq(m) == SelectSeq(SubSeq(KeyOrder, 1, MaxKeys), LAMBDA k : k \in DOMAIN m)

\* the loop "for (k,v) in src.items()" of merge_dicts, from item i on
RECURSIVE MergeLoop(_, _, _, _)
MergeLoop(dst, src, i, res) ==
    IF i > Len(KeySeq(src)) THEN res
    ELSE LET k == KeySeq(src)[i] IN
         IF k \in DOMAIN dst
         THEN MergeLoop(dst, src, i + 1, (k :> dst[k]) @@ res)
         ELSE MergeLoop(dst, src, i + 1, (k :> src[k]) @@ res)

\* merge_dicts starting from a copy of dst instead of an empty dict
merge_dicts_union(dst, src) == MergeLoop(dst, src, 1, dst)

merge_dicts(dst, src) == MergeLoop(dst, src, 1, EmptyMap)

\* the material fields the merge touches
MatFields == <<"shaderParameters", "shaderSamplerDefs", "shaderSwitches">>

\* dst[f] = merge_dicts(dst[f], src[f]) on the outcome r of the statements
\* before it; a missing field raises KeyError and leaves dst as it is
MergeField(r, src, f) ==
    IF ~r.ok THEN r
    ELSE IF f \notin DOMAIN r.mat \/ f \notin DOMAIN src THEN [ok |-> FALSE, mat |-> r.mat]
    ELSE [ok |-> TRUE, mat |-> [r.mat EXCEPT ![f] = merge_dicts(r.mat[f], src[f])]]

\* merge_mats reading the other field of dst in its first two statements
merge_mats_crossed(dst, src) ==
    LET d1 == [ok |-> TRUE,
               mat |-> [dst EXCEPT ![MatFields[1]] =
                           merge_dicts(dst[MatFields[2]], src[MatFields[1]])]]
        d2 == [ok |-> TRUE,
               mat |-> [d1.mat EXCEPT ![MatFields[2]] =
                           merge_dicts(d1.mat[MatFields[1]], src[MatFields[2]])]]
    IN IF MatFields[3] \in DOMAIN d2.mat
       THEN MergeField(d2, src, MatFields[3])
       ELSE d2

\* merge_mats of replace_shaders_and_mats_cs1.py: ok is FALSE when it
\* raises KeyError, mat is dst after the call
merge_mats(dst, src) ==
    LET d2 == MergeField(MergeField([ok |-> TRUE, mat |-> dst], src, MatFields[1]),
                         src, MatFields[2])
    IN IF d2.ok /\ MatFields[3] \in DOMAIN d2.mat
       THEN MergeField(d2, src, MatFields[3])
       ELSE d2

\* merge_mats of replace_material.py
merge_mats_rm(dst, src) ==
    MergeField(MergeField(MergeField([ok |-> TRUE, mat |-> dst], src, MatFields[1]),
                          src, MatFields[2]),
               src, MatFields[3])

\* the materials of the model: shaderParameters and shaderSamplerDefs over
\* the first two keys, shaderSwitches optional
MatKeys == {KeyOrder[1], KeyOrder[2]}
Materials(V) ==
    {[f \in {MatFields[1], MatFields[2]} |-> IF f = MatFields[1] THEN p ELSE s] :
        p \in MapsOver(MatKeys, V), s \in MapsOver(MatKeys, V)}
    \cup
    {[f \in Range(MatFields) |-> IF f = MatFields[1] THEN p
                                 ELSE IF f = MatFields[2] THEN s ELSE w] :
        p \in MapsOver(MatKeys, V), s \in MapsOver(MatKeys, V), w \in MapsOver(MatKeys, V)}

NoMat == [f \in {} |-> EmptyMap]

\* ------------------------------------------------------------------------
\* load_shader_database
\* ------------------------------------------------------------------------
MaxRows == 3

\* the rows of the model: an empty line, a row of one column, rows of two
\* columns with a package, an empty field or "None", rows of three columns
CsvNames == {"sX", "sY"}
CsvPackages == {"pkgA.pkg", "pkgB.pkg", "", "None"}
CsvRows ==
    {<<>>}
    \cup {<<n>> : n \in CsvNames}
    \cup {<<n, p>> : n \in CsvNames, p \in CsvPackages}
    \cup {<<n, p, "x">> : n \in CsvNames, p \in {"pkgA.pkg", ""}}
CsvFiles == UNION {[1..n -> CsvRows] : n \in 0..MaxRows}

\* "if package_name and package_name != 'None'"
ValidPackage(package_name) == package_name # "" /\ package_name # "None"

\* the loop "for row in reader" from row i on, db being the dictionary so far
RECURSIVE LoadLoop(_, _, _)
LoadLoop(rows, i, db) ==
    IF i > Len(rows) THEN db
    ELSE LET row == rows[i] IN
         IF Len(row) > 1 /\ ValidPackage(row[2])
         THEN LoadLoop(rows, i + 1,
                       [n \in DOMAIN db \cup {row[1]} |->
                           IF n = row[1] THEN row[2] ELSE db[n]])
         ELSE LoadLoop(rows, i + 1, db)

\* a loader that does not skip the first row
load_shader_database_noheader(rows) == LoadLoop(rows, 1, EmptyMap)

\* load_shader_database: next(reader, None) skips the first row
load_shader_database(rows) == LoadLoop(rows, 2, EmptyMap)

MergeInit ==
    /\ mpc \in {"dicts", "mats", "load"}
    /\ script \in {"cs1", "rm"}
    /\ IF mpc = "dicts"
       THEN /\ script = "cs1"
            /\ d_dst \in MapsOver(Keys, TargetVals)
            /\ d_src \in MapsOver(Keys, DonorVals)
            /\ m_dst = NoMat /\ m_src = NoMat
            /\ csv_rows = <<>>
       ELSE IF mpc = "mats"
       THEN /\ d_dst = EmptyMap /\ d_src = EmptyMap
            /\ m_dst \in Materials({1})
            /\ m_src \in Materials({2})
            /\ csv_rows = <<>>
       ELSE /\ script = "cs1"
            /\ d_dst = EmptyMap /\ d_src = EmptyMap
            /\ m_dst = NoMat /\ m_src = NoMat
            /\ csv_rows \in CsvFiles
    /\ d_res = EmptyMap
    /\ m_in = m_dst
    /\ m_once = NoMat
    /\ merges = 0
    /\ database = EmptyMap

\* res = merge_dicts(dst, src)
CallMergeDicts ==
    /\ mpc = "dicts"
    /\ d_res' = merge_dicts(d_dst, d_src)
    /\ mpc' = "dicts_done"
    /\ UNCHANGED <<script, d_dst, d_src, m_dst, m_src, m_in, m_once, merges,
                   csv_rows, database>>
    /\ UNCHANGED <<pipeVars, portVars, replVars>>

\* shader_db = load_shader_database(ALL_SHADERS_CSV)
CallLoadShaderDatabase ==
    /\ mpc = "load"
    /\ database' = load_shader_database(csv_rows)
    /\ mpc' = "load_done"
    /\ UNCHANGED <<script, d_dst, d_src, d_res, m_dst, m_src, m_in, m_once, merges,
                   csv_rows>>
    /\ UNCHANGED <<pipeVars, portVars, replVars>>

\* mats[m] = merge_mats(mats[m], donor_mat)
CallMergeMats ==
    /\ mpc = "mats"
    /\ merges < MaxMerges
    /\ LET r == IF script = "cs1" THEN merge_mats(m_dst, m_src)
                ELSE merge_mats_rm(m_dst, m_src) IN
       /\ m_dst' = r.mat
       /\ IF r.ok
          THEN /\ merges' = merges + 1
               /\ m_once' = IF merges = 0 THEN r.mat ELSE m_once
               /\ UNCHANGED mpc
          ELSE /\ mpc' = "KeyError"
               /\ UNCHANGED <<merges, m_once>>
    /\ UNCHANGED <<script, d_dst, d_src, d_res, m_src, m_in, csv_rows, database>>
    /\ UNCHANGED <<pipeVars, portVars, replVars>>

\* ------------------------------------------------------------------------
\* port_ops_file_cs1.py: AssetPorter.port and the batch driver of main
\* ------------------------------------------------------------------------

MaxAssets == 2
MaxTextures == 1

AssetOrder == <<"O_A", "O_B", "O_C", "O_D">>
AssetNames == {AssetOrder[i] : i \in 1..MaxAssets}
NoAsset == "None"
NoFile == <<>>

\* len(needed_pack_tools)
NumPackTools == 15

\* src_asset_path of port: the D3D11 path, or the D3D11_us path when the
\* first does not exist; NotFound when shutil.copy will not find it either
src_asset_path(d3d11, d3d11_us, asset) ==
    IF asset \in d3d11 THEN SourceDirs[1]
    ELSE IF asset \in d3d11_us THEN SourceDirs[2]
    ELSE NotFound

\* a port that ends the process on a failed stage, as the shader pipeline does
ReturnLogger_exit(at, line) ==
    /\ stage' = [stage EXCEPT ![cur] = "Failed"]
    /\ failedAt' = [failedAt EXCEPT ![cur] = at]
    /\ logger' = Append(logger, line)
    /\ error_log' = error_log
    /\ ppc' = "exited"

\* a port that returns its log without the job having ended
ReturnLogger_unmarked(at, line) ==
    /\ stage' = stage
    /\ failedAt' = [failedAt EXCEPT ![cur] = at]
    /\ logger' = Append(logger, line)
    /\ error_log' = Append(error_log, <<cur, Append(logger, line)>>)
    /\ ppc' = "loop"

\* a driver that drops the log port returns
ReturnLogger_dropped(at, line) ==
    /\ stage' = [stage EXCEPT ![cur] = "Failed"]
    /\ failedAt' = [failedAt EXCEPT ![cur] = at]
    /\ logger' = Append(logger, line)
    /\ error_log' = error_log
    /\ ppc' = "loop"

\* "return logger" of port followed by "if logger is not None: error_log += ..."
\* of main
ReturnLogger(at, line) ==
    /\ stage' = [stage EXCEPT ![cur] = "Failed"]
    /\ failedAt' = [failedAt EXCEPT ![cur] = at]
    /\ logger' = Append(logger, line)
    /\ error_log' = Append(error_log, <<cur, Append(logger, line)>>)
    /\ ppc' = "loop"

\* the external programs port runs with subprocess.run
PortTools == {"ed8pkg2gltf.py", "replace_shaders_and_mats_cs1.py", "texconv.exe",
              "build_collada_cs1.py", "RunMe.bat"}

\* a missing pack tool handled like the failure of an external program
sys_exit_returns ==
    /\ stage' = [stage EXCEPT ![cur] = "Failed"]
    /\ failedAt' = [failedAt EXCEPT ![cur] = "tools"]
    /\ logger' = Append(logger, "packtool missing")
    /\ error_log' = Append(error_log, <<cur, Append(logger, "packtool missing")>>)
    /\ ppc' = "loop"
    /\ fatal' = fatal

\* print(packtool missing), sys.exit(1) in the loop over needed_pack_tools
sys_exit ==
    /\ ppc' = "exited"
    /\ fatal' = "ToolMissing"
    /\ UNCHANGED <<stage, failedAt, logger, error_log>>

\* a port without the platform check
proc_self_exists_never == FALSE

\* os.path.exists('/proc/self')
proc_self_exists == linux

\* a port that never looks at the output directory
OutputExists_never(a) == FALSE

\* os.path.exists(self.out_dir/asset_file)
OutputExists(a) == a \in out_dir

PortInit ==
    /\ ppc = "loop"
    /\ batch \in SUBSET AssetNames
    /\ assets = batch
    /\ cur = NoAsset
    /\ stage = [a \in AssetNames |-> "Pending"]
    /\ failedAt = [a \in AssetNames |-> ""]
    /\ logger = <<>>
    /\ error_log = <<>>
    /\ errors_txt = NoFile
    /\ out_dir \in SUBSET batch
    /\ linux \in BOOLEAN
    /\ flip_textures_vertically \in BOOLEAN
    /\ texturesLeft = 0
    /\ flips = [a \in AssetNames |-> 0]
    /\ toolsStaged = [a \in AssetNames |-> 0]
    /\ fatal = ""
    /\ prun = 1
    /\ ported = {}
    /\ spawned = [a \in AssetNames |-> {}]
    /\ tmp_src = {}

\* main calls port(asset): the output check, then the copy of the source
\* package from D3D11 or D3D11_us into tmp_dir/src
PortStart(a) ==
    /\ ppc = "loop"
    /\ a \in assets
    /\ assets' = assets \ {a}
    /\ cur' = a
    /\ IF OutputExists(a)
       THEN /\ stage' = [stage EXCEPT ![a] = "Skipped"]
            /\ logger' = <<>>
            /\ UNCHANGED <<ppc, fatal, tmp_src>>
       ELSE \E d3d11 \in SUBSET {a}, d3d11_us \in SUBSET {a} :
              IF src_asset_path(d3d11, d3d11_us, a) # NotFound
              THEN /\ stage' = [stage EXCEPT ![a] = "Staged"]
                   /\ tmp_src' = tmp_src \cup {a}
                   /\ logger' = <<"Unpacking">>
                   /\ ppc' = "unpack"
                   /\ UNCHANGED fatal
              ELSE /\ ppc' = "crashed"
                   /\ fatal' = "FileNotFoundError"
                   /\ logger' = <<>>
                   /\ UNCHANGED <<stage, tmp_src>>
    /\ UNCHANGED <<batch, failedAt, error_log, errors_txt, out_dir, linux,
                   flip_textures_vertically, texturesLeft, flips, toolsStaged,
                   prun, ported, spawned>>
    /\ UNCHANGED <<pipeVars, mergeVars, replVars>>

\* subprocess.run of ed8pkg2gltf.py -o
PortUnpack ==
    /\ ppc = "unpack"
    /\ spawned' = [spawned EXCEPT ![cur] = @ \cup {"ed8pkg2gltf.py"}]
    /\ \E ok \in BOOLEAN :
         IF ok
         THEN /\ stage' = [stage EXCEPT ![cur] = "Unpacked"]
              /\ logger' = Append(logger, "Replacing shaders and material")
              /\ ppc' = "replace"
              /\ UNCHANGED <<failedAt, error_log>>
         ELSE ReturnLogger("unpack", "FATAL: Error unpacking package")
    /\ UNCHANGED <<batch, assets, cur, errors_txt, out_dir, linux,
                   flip_textures_vertically, texturesLeft, flips, toolsStaged, fatal,
                   prun, ported, tmp_src>>
    /\ UNCHANGED <<pipeVars, mergeVars, replVars>>

\* subprocess.run of replace_shaders_and_mats_cs1.py
PortReplace ==
    /\ ppc = "replace"
    /\ spawned' = [spawned EXCEPT ![cur] = @ \cup {"replace_shaders_and_mats_cs1.py"}]
    /\ \E ok \in BOOLEAN :
         IF ok
         THEN /\ stage' = [stage EXCEPT ![cur] = "MaterialsReplaced"]
              /\ ppc' = "gate"
              /\ UNCHANGED <<failedAt, error_log, logger>>
         ELSE ReturnLogger("replace", "FATAL: Error replacing shaders and materials")
    /\ UNCHANGED <<batch, assets, cur, errors_txt, out_dir, linux,
                   flip_textures_vertically, texturesLeft, flips, toolsStaged, fatal,
                   prun, ported, tmp_src>>
    /\ UNCHANGED <<pipeVars, mergeVars, replVars>>

\* "if os.path.exists('/proc/self'): return", else the glob of the textures
PlatformGate ==
    /\ ppc = "gate"
    /\ IF proc_self_exists
       THEN /\ stage' = [stage EXCEPT ![cur] = "PlatformGateSkipped"]
            /\ ppc' = "loop"
            /\ UNCHANGED <<logger, texturesLeft>>
       ELSE /\ logger' = Append(logger, "Flipping texture vertically")
            /\ \E n \in 0..MaxTextures : texturesLeft' = n
            /\ ppc' = "flip"
            /\ UNCHANGED stage
    /\ UNCHANGED <<batch, assets, cur, failedAt, error_log, errors_txt, out_dir, linux,
                   flip_textures_vertically, flips, toolsStaged, fatal,
                   prun, ported, spawned, tmp_src>>
    /\ UNCHANGED <<pipeVars, mergeVars, replVars>>

\* one iteration of "for texture in asset_dir.glob('**/*.dds')"
FlipTexture ==
    /\ ppc = "flip"
    /\ texturesLeft > 0
    /\ flips' = [flips EXCEPT ![cur] = @ + 1]
    /\ spawned' = [spawned EXCEPT ![cur] = @ \cup {"texconv.exe"}]
    /\ \E ok \in BOOLEAN :
         IF ok
         THEN /\ texturesLeft' = texturesLeft - 1
              /\ UNCHANGED <<stage, failedAt, logger, error_log, ppc>>
         ELSE /\ ReturnLogger("flip", "FATAL: Error flipping texture")
              /\ UNCHANGED texturesLeft
    /\ UNCHANGED <<batch, assets, cur, errors_txt, out_dir, linux,
                   flip_textures_vertically, toolsStaged, fatal,
                   prun, ported, tmp_src>>
    /\ UNCHANGED <<pipeVars, mergeVars, replVars>>

FlipDone ==
    /\ ppc = "flip"
    /\ texturesLeft = 0
    /\ stage' = [stage EXCEPT ![cur] = "TexturesProcessed"]
    /\ logger' = Append(logger, "Packing asset")
    /\ ppc' = "tools"
    /\ UNCHANGED <<batch, assets, cur, failedAt, error_log, errors_txt, out_dir, linux,
                   flip_textures_vertically, texturesLeft, flips, toolsStaged, fatal,
                   prun, ported, spawned, tmp_src>>
    /\ UNCHANGED <<pipeVars, mergeVars, replVars>>

\* the cases of the first tool of needed_pack_tools that is not in
\* packtools_dir: none (0), the first or the last of the list
FirstMissing == {0, 1, NumPackTools}

\* "for f in needed_pack_tools": firstMissing is the index of the first tool
\* that is not in packtools_dir, 0 if all are there
StagePackTools ==
    /\ ppc = "tools"
    /\ \E firstMissing \in FirstMissing :
         IF firstMissing = 0
         THEN /\ toolsStaged' = [toolsStaged EXCEPT ![cur] = NumPackTools]
              /\ ppc' = "build"
              /\ UNCHANGED <<fatal, stage, failedAt, logger, error_log>>
         ELSE /\ toolsStaged' = [toolsStaged EXCEPT ![cur] = firstMissing - 1]
              /\ sys_exit
    /\ UNCHANGED <<batch, assets, cur, errors_txt,
                   out_dir, linux, flip_textures_vertically, texturesLeft, flips,
                   prun, ported, spawned, tmp_src>>
    /\ UNCHANGED <<pipeVars, mergeVars, replVars>>

\* subprocess.run of build_collada_cs1.py
BuildCollada ==
    /\ ppc = "build"
    /\ spawned' = [spawned EXCEPT ![cur] = @ \cup {"build_collada_cs1.py"}]
    /\ \E ok \in BOOLEAN :
         IF ok
         THEN /\ ppc' = "runme"
              /\ UNCHANGED <<stage, failedAt, logger, error_log>>
         ELSE ReturnLogger("build", "FATAL: Error re-packing (build_collda_cs1.py)")
    /\ UNCHANGED <<batch, assets, cur, errors_txt, out_dir, linux,
                   flip_textures_vertically, texturesLeft, flips, toolsStaged, fatal,
                   prun, ported, tmp_src>>
    /\ UNCHANGED <<pipeVars, mergeVars, replVars>>

\* subprocess.run of RunMe.bat
RunMe ==
    /\ ppc = "runme"
    /\ spawned' = [spawned EXCEPT ![cur] = @ \cup {"RunMe.bat"}]
    /\ \E ok \in BOOLEAN :
         IF ok
         THEN /\ stage' = [stage EXCEPT ![cur] = "Repacked"]
              /\ ppc' = "copy_out"
              /\ UNCHANGED <<failedAt, logger, error_log>>
         ELSE ReturnLogger("runme", "FATAL: Error re-packing (RunMe.bat)")
    /\ UNCHANGED <<batch, assets, cur, errors_txt, out_dir, linux,
                   flip_textures_vertically, texturesLeft, flips, toolsStaged, fatal,
                   prun, ported, tmp_src>>
    /\ UNCHANGED <<pipeVars, mergeVars, replVars>>

\* shutil.copy of the package to out_dir, "return None"
CopyToOutDir ==
    /\ ppc = "copy_out"
    /\ out_dir' = out_dir \cup {cur}
    /\ ported' = ported \cup {cur}
    /\ stage' = [stage EXCEPT ![cur] = "Finalized"]
    /\ logger' = Append(logger, "finished packing")
    /\ ppc' = "loop"
    /\ UNCHANGED <<batch, assets, cur, failedAt, error_log, errors_txt, linux,
                   flip_textures_vertically, texturesLeft, flips, toolsStaged, fatal,
                   prun, spawned, tmp_src>>
    /\ UNCHANGED <<pipeVars, mergeVars, replVars>>

\* after the loop: "if error_log != '': write errors.txt"
WriteReport ==
    /\ ppc = "loop"
    /\ assets = {}
    /\ errors_txt' = IF error_log # <<>> THEN error_log ELSE errors_txt
    /\ ppc' = "done"
    /\ UNCHANGED <<batch, assets, cur, stage, failedAt, logger, error_log, out_dir,
                   linux, flip_textures_vertically, texturesLeft, flips, toolsStaged,
                   fatal, prun, ported, spawned, tmp_src>>
    /\ UNCHANGED <<pipeVars, mergeVars, replVars>>

\* the script is started again with the same arguments, on the directories
\* the earlier run left behind
PortRerun ==
    /\ ppc \in {"done", "crashed", "exited"}
    /\ prun < MaxRuns
    /\ prun' = prun + 1
    /\ ppc' = "loop"
    /\ assets' = batch
    /\ cur' = NoAsset
    /\ stage' = [a \in AssetNames |-> "Pending"]
    /\ failedAt' = [a \in AssetNames |-> ""]
    /\ logger' = <<>>
    /\ error_log' = <<>>
    /\ texturesLeft' = 0
    /\ flips' = [a \in AssetNames |-> 0]
    /\ toolsStaged' = [a \in AssetNames |-> 0]
    /\ fatal' = ""
    /\ spawned' = [a \in AssetNames |-> {}]
    /\ errors_txt' = NoFile
    /\ UNCHANGED <<batch, out_dir, linux, flip_textures_vertically,
                   ported, tmp_src>>
    /\ UNCHANGED <<pipeVars, mergeVars, replVars>>

\* ------------------------------------------------------------------------
\* replace_materials (replace_shaders_and_mats_cs1.py) and the main block
\* of replace_material.py
\* ------------------------------------------------------------------------

\* a shader reference is <<prefix, name>>, the prefix being "shaders/" or ""
SHADER_PREFIX == "shaders/"

\* v["shader"].removeprefix("shaders/")
removeprefix(ref) == ref[2]

\* "shaders/" + shader
WithPrefix(shader) == <<SHADER_PREFIX, shader>>

\* the materials of the target, in the order of the metadata file
MatOrder == <<"m1", "m2">>
MatNames == Range(MatOrder)

NoTable == EmptyMap

\* the target materials of the model: a shader reference with or without
\* the prefix, vertex_color_shader and shaderSwitches optional
TargetRefs == {<<SHADER_PREFIX, "sX">>, <<"", "sX">>, <<SHADER_PREFIX, "sZ">>}
TargetOptional ==
    {EmptyMap,
     "vertex_color_shader" :> <<SHADER_PREFIX, "sV">>,
     "shaderSwitches" :> ("a" :> 1),
     ("vertex_color_shader" :> <<SHADER_PREFIX, "sV">>) @@ ("shaderSwitches" :> ("a" :> 1))}
TargetMaterials ==
    {("shader" :> ref) @@ ("shaderParameters" :> ("a" :> 1))
        @@ ("shaderSamplerDefs" :> ("b" :> 1)) @@ opt :
        ref \in TargetRefs, opt \in TargetOptional}
TargetTables == [MatNames -> TargetMaterials]

\* the shader mappings of the model: rows <<original, resolved, donorLocation>>
MappingCases ==
    {<< <<"sX", "sX", DonorLocation("pkgA.pkg")>> >>,
     << <<"sX", "sY", DonorLocation("pkgA.pkg")>> >>,
     << <<"sX", "sY", DonorLocation("pkgA.pkg")>>,
        <<"sZ", "sY", DonorLocation("pkgA.pkg")>> >>,
     << <<"sX", "sY", DonorLocation("pkgA.pkg")>>,
        <<"sZ", "sZ", DonorLocation(well_known_asset)>> >>,
     << <<"sX", "", DonorLocation("pkgA.pkg")>> >>}

\* dict((row[0], (row[1],row[2])) for row in shader_mapping), from row i on
RECURSIVE ShaderMapLoop(_, _, _)
ShaderMapLoop(rows, i, d) ==
    IF i > Len(rows) THEN d
    ELSE ShaderMapLoop(rows, i + 1,
                       [k \in DOMAIN d \cup {rows[i][1]} |->
                           IF k = rows[i][1] THEN <<rows[i][2], rows[i][3]>> ELSE d[k]])

ShaderMapOf(rows) == ShaderMapLoop(rows, 1, EmptyMap)

\* "if shader != replace_shader" of replace_materials
Rewrite(shader, replace_shader) == shader # replace_shader

\* "if replace_shader" of replace_material.py
Rewrite_rm(shader, replace_shader) == replace_shader # ""

\* v["shader"] = "shaders/"+shader, and the same for vertex_color_shader
\* if the material has one
RewriteMat(v, shader) ==
    [f \in DOMAIN v |->
        IF f \in {"shader", "vertex_color_shader"} THEN WithPrefix(shader) ELSE v[f]]

\* files_to_shaders_to_materials[file][shader].append(m): the groups are
\* kept in the iteration order of the two nested dicts
AddToGroups(groups, file, shader, m) ==
    LET same == {i \in 1..Len(groups) :
                    groups[i].file = file /\ groups[i].shader = shader}
        ofFile == {i \in 1..Len(groups) : groups[i].file = file}
        g == [file |-> file, shader |-> shader, ms |-> <<m>>]
    IN IF same # {}
       THEN [i \in 1..Len(groups) |->
                IF i \in same THEN [groups[i] EXCEPT !.ms = Append(@, m)]
                ELSE groups[i]]
       ELSE IF ofFile = {} THEN Append(groups, g)
       ELSE LET last == CHOOSE i \in ofFile : \A j \in ofFile : j <= i
            IN SubSeq(groups, 1, last) \o <<g>> \o SubSeq(groups, last + 1, Len(groups))

\* the loop "for (m, v) in mats.items()" from material i on: t is the
\* materials table, groups the groups so far
RECURSIVE GroupLoop(_, _, _, _, _)
GroupLoop(sc, shader_map, i, t, groups) ==
    IF i > Len(MatOrder) THEN [mats |-> t, stm |-> groups]
    ELSE LET m == MatOrder[i]
             v == t[m]
             shader == removeprefix(v["shader"])
         IN IF shader \notin DOMAIN shader_map
            THEN GroupLoop(sc, shader_map, i + 1, t, groups)
            ELSE LET replace_shader == shader_map[shader][1]
                     file == shader_map[shader][2]
                     rw == IF sc = "cs1" THEN Rewrite(shader, replace_shader)
                           ELSE Rewrite_rm(shader, replace_shader)
                     final == IF rw THEN replace_shader ELSE shader
                 IN GroupLoop(sc, shader_map, i + 1,
                              [t EXCEPT ![m] = IF rw THEN RewriteMat(v, final) ELSE v],
                              AddToGroups(groups, file, final, m))

\* the materials a donor's metadata files can hold for shader s, and what
\* donor_mats then holds for s: nothing when no donor material uses s
DonorMaterials(s) ==
    {("shader" :> WithPrefix(s)) @@ ("shaderParameters" :> (("a" :> 2) @@ ("c" :> 2)))
        @@ ("shaderSamplerDefs" :> ("b" :> 2)) @@ opt :
        opt \in {EmptyMap, "shaderSwitches" :> (("a" :> 2) @@ ("c" :> 2))}}
DonorDicts(s) == {EmptyMap} \cup {s :> d : d \in DonorMaterials(s)}

\* "for m in ms: mats[m] = merge_mats(mats[m], donor_mat)" from material i
\* on; ok is FALSE when merge_mats raises KeyError
RECURSIVE MergeMaterials(_, _, _, _, _)
MergeMaterials(sc, t, ms, i, donor_mat) ==
    IF i > Len(ms) THEN [ok |-> TRUE, mats |-> t]
    ELSE LET r == IF sc = "cs1" THEN merge_mats(t[ms[i]], donor_mat)
                  ELSE merge_mats_rm(t[ms[i]], donor_mat)
         IN IF r.ok
            THEN MergeMaterials(sc, [t EXCEPT ![ms[i]] = r.mat], ms, i + 1, donor_mat)
            ELSE [ok |-> FALSE, mats |-> [t EXCEPT ![ms[i]] = r.mat]]

\* a merge loop that writes the table back after every group
DiskAfterGroup_flush(disk, mem) == mem

\* the metadata file after one group was merged: the loop changes the
\* table in memory only, json.dumps and the write come after both loops
DiskAfterGroup(disk, mem) == disk

ReplInit ==
    /\ rpc = "group"
    /\ rscript \in {"cs1", "rm"}
    /\ mapping_rows \in MappingCases
    /\ metadata_file \in TargetTables
    /\ mats_read = NoTable
    /\ mats = NoTable
    /\ stm = <<>>
    /\ merged = 0
    /\ copied = {}
    /\ written = NoTable
    /\ rexit = "running"

\* the metadata is read and the first loop groups the mapped materials
GroupMaterials ==
    /\ rpc = "group"
    /\ LET r == GroupLoop(rscript, ShaderMapOf(mapping_rows), 1, metadata_file, <<>>) IN
         /\ mats_read' = metadata_file
         /\ mats' = r.mats
         /\ stm' = r.stm
    /\ rpc' = "merge"
    /\ UNCHANGED <<rscript, mapping_rows, metadata_file, merged, copied, written, rexit>>
    /\ UNCHANGED <<pipeVars, mergeVars, portVars>>

\* one iteration of "for (s, ms) in stm.items()": is_file is whether the
\* donor's shader file exists, donor_mats what the donor's metadata gave
MergeGroup ==
    /\ rpc = "merge"
    /\ stm # <<>>
    /\ LET g == Head(stm) IN
       \E is_file \in BOOLEAN, donor_mats \in DonorDicts(g.shader) :
          IF rscript = "cs1" /\ ~is_file
          THEN /\ rpc' = "failed"
               /\ rexit' = "ShaderFileMissing"
               /\ UNCHANGED <<mats, stm, merged, copied, metadata_file>>
          ELSE /\ copied' = IF rscript = "cs1" THEN copied \cup {g.shader} ELSE copied
               /\ IF g.shader \notin DOMAIN donor_mats
                  THEN /\ rpc' = "failed"
                       /\ rexit' = "KeyError"
                       /\ UNCHANGED <<mats, stm, merged, metadata_file>>
                  ELSE LET r == MergeMaterials(rscript, mats, g.ms, 1, donor_mats[g.shader]) IN
                       /\ mats' = r.mats
                       /\ metadata_file' = DiskAfterGroup(metadata_file, r.mats)
                       /\ IF r.ok
                          THEN /\ stm' = Tail(stm)
                               /\ merged' = merged + 1
                               /\ UNCHANGED <<rpc, rexit>>
                          ELSE /\ rpc' = "failed"
                               /\ rexit' = "KeyError"
                               /\ UNCHANGED <<stm, merged>>
    /\ UNCHANGED <<rscript, mapping_rows, mats_read, written>>
    /\ UNCHANGED <<pipeVars, mergeVars, portVars>>

\* json.dumps and the write: replace_materials overwrites the metadata
\* file, replace_material.py writes to the outfile or to stdout
WriteBack ==
    /\ rpc = "merge"
    /\ stm = <<>>
    /\ written' = mats
    /\ metadata_file' = IF rscript = "cs1" THEN mats ELSE metadata_file
    /\ rpc' = "done"
    /\ rexit' = "ok"
    /\ UNCHANGED <<rscript, mapping_rows, mats_read, mats, stm, merged, copied>>
    /\ UNCHANGED <<pipeVars, mergeVars, portVars>>

\* the parts of the state a specification does not use stay at these values
PipeIdle ==
    /\ pc = "idle" /\ run = 0 /\ shader_db = EmptyMap /\ shaders = <<>> /\ idx = 0
    /\ packages_to_unpack = {} /\ shader_mapping = <<>> /\ togo = {}
    /\ job = EmptyMap /\ seen = {} /\ default_shaders = <<>> /\ tmpFiles = {}
    /\ tmpDirs = {} /\ invoked = EmptyMap /\ simCalls = {} /\ lastSim = ""
    /\ referenced = {} /\ catalog = "no"
    /\ unpackedOk = {} /\ phase3 = "none" /\ exit = "idle" /\ searched = {}

MergeIdle ==
    /\ mpc = "idle" /\ script = "cs1" /\ d_dst = EmptyMap /\ d_src = EmptyMap
    /\ d_res = EmptyMap /\ m_dst = NoMat /\ m_src = NoMat /\ m_in = NoMat
    /\ m_once = NoMat /\ merges = 0
    /\ csv_rows = <<>> /\ database = EmptyMap

PortIdle ==
    /\ ppc = "idle" /\ batch = {} /\ assets = {} /\ cur = NoAsset /\ stage = EmptyMap
    /\ failedAt = EmptyMap /\ logger = <<>> /\ error_log = <<>> /\ errors_txt = NoFile
    /\ out_dir = {} /\ linux = FALSE /\ flip_textures_vertically = FALSE
    /\ texturesLeft = 0 /\ flips = EmptyMap /\ toolsStaged = EmptyMap /\ fatal = ""
    /\ prun = 0 /\ ported = {} /\ spawned = EmptyMap /\ tmp_src = {}

ReplIdle ==
    /\ rpc = "idle" /\ rscript = "cs1" /\ mapping_rows = <<>>
    /\ metadata_file = NoTable /\ mats_read = NoTable /\ mats = NoTable
    /\ stm = <<>> /\ merged = 0 /\ copied = {} /\ written = NoTable
    /\ rexit = "idle"

PipeNext ==
    \/ ResolveShader
    \/ ResolveDone
    \/ \E p \in Packages : StageAndSubmit(p)
    \/ StageDone
    \/ \E p \in Packages : WorkerRun(p)
    \/ \E p \in Packages : UnpackExit(p)
    \/ \E p \in Packages : JoinTake(p)
    \/ JoinDone
    \/ Shutdown
    \/ DefaultsReferenced
    \/ \E p \in Packages : ScanPackage(p)
    \/ ScanDone
    \/ CatalogStage
    \/ CatalogUnpackExit
    \/ CatalogAttribute
    \/ WriteMappingHeader
    \/ CopyShader
    \/ CopyDone
    \/ CallReplaceMaterials
    \/ Rerun

\* phases 1 and 2 of the shader pipeline
PoolNext ==
    \/ ResolveShader
    \/ ResolveDone
    \/ \E p \in Packages : StageAndSubmit(p)
    \/ StageDone
    \/ \E p \in Packages : WorkerRun(p)
    \/ \E p \in Packages : UnpackExit(p)
    \/ \E p \in Packages : JoinTake(p)
    \/ JoinDone
    \/ Shutdown

MergeNext ==
    \/ CallMergeDicts
    \/ CallMergeMats
    \/ CallLoadShaderDatabase

ReplNext ==
    \/ GroupMaterials
    \/ MergeGroup
    \/ WriteBack

PortNext ==
    \/ \E a \in AssetNames : PortStart(a)
    \/ PortUnpack
    \/ PortReplace
    \/ PlatformGate
    \/ FlipTexture
    \/ FlipDone
    \/ StagePackTools
    \/ BuildCollada
    \/ RunMe
    \/ CopyToOutDir
    \/ WriteReport
    \/ PortRerun

\* ========================================================================
\* Properties
\* ========================================================================

\* C1: merge_dicts(T, D) returns a map whose keys are exactly the keys of D,
\* with T's value on every key in both and D's value on every key only in D
\* (keys only in T are absent); T={a:1,b:2}, D={b:9,c:3} gives {b:2,c:3}.
C1_MergeKeyPolicy ==
    mpc = "dicts_done" =>
        /\ DOMAIN d_res = DOMAIN d_src
        /\ \A k \in DOMAIN d_res :
             d_res[k] = IF k \in DOMAIN d_dst THEN d_dst[k] ELSE d_src[k]
        /\ (d_dst = ("a" :> 1) @@ ("b" :> 2) /\ d_src = ("b" :> 9) @@ ("c" :> 3))
              => d_res = ("b" :> 2) @@ ("c" :> 3)

C1_Witness ==
    /\ mpc = "dicts_done"
    /\ d_dst = ("a" :> 1) @@ ("b" :> 2)
    /\ d_src = ("b" :> 9) @@ ("c" :> 3)
    /\ DOMAIN d_res = {"b", "c"}

\* the states in which port has returned to the batch driver
Returned == {"Skipped", "Failed", "PlatformGateSkipped", "Finalized"}

\* C3 as amended: a failed unpack of one asset returns to the batch driver,
\* which goes on with the remaining assets; when the driver has finished,
\* every asset has been processed, and each one whose own stages all
\* succeeded is in the output directory where the repack toolchain runs
\* and has stopped at the platform gate where it does not.
C3_BatchIsolation ==
    /\ \A a \in AssetNames :
         (failedAt[a] = "unpack" /\ cur = a) => ppc \in {"loop", "done"}
    /\ ppc = "done" =>
         \A b \in batch :
            /\ stage[b] \in Returned
            /\ (stage[b] # "Failed" /\ ~linux) => b \in out_dir
            /\ (stage[b] # "Failed" /\ linux /\ b \notin out_dir)
                  => stage[b] = "PlatformGateSkipped"

C3_Witness ==
    /\ ppc = "done"
    /\ \E a, b \in batch :
         /\ failedAt[a] = "unpack"
         /\ cur = b
         /\ stage[b] = "Finalized"
         /\ b \in out_dir

\* C3 as stated: when the driver has finished a batch in which the unpacker
\* failed for one asset, every other asset whose stages all succeeded is
\* Finalized, its package in the output directory.
C3_AsStated ==
    (ppc = "done" /\ \E a \in batch : failedAt[a] = "unpack") =>
        \A b \in batch :
            /\ stage[b] \in Returned
            /\ stage[b] # "Failed" => b \in out_dir

\* the phases of main after the with block
AfterPool == {"defaults", "scan", "catalog", "catalog_unpacking", "attribute",
              "phase3", "copy", "done"}

\* C2: in one run the external unpacker is invoked at most once for each
\* package, however many shaders resolve to it; in a run on a fresh working
\* directory each package of the batch has been unpacked exactly once when
\* the pool is left.
C2_UnpackOncePerPackage ==
    /\ \A p \in Pkgs : invoked[p] <= 1
    /\ (run = 1 /\ pc \in AfterPool) => \A p \in packages_to_unpack : invoked[p] = 1

C2_Witness ==
    /\ run = 1
    /\ pc = "defaults"
    /\ Len(shader_mapping) = 2
    /\ shader_mapping[1][3] = shader_mapping[2][3]
    /\ shader_mapping[1][2] = shader_mapping[2][2]
    /\ shader_mapping[1][1] # shader_mapping[2][1]
    /\ \E p \in Pkgs : packages_to_unpack = {p} /\ invoked[p] = 1

\* C4: no default-shader scan, shader copy, mapping-file write or material
\* merge happens while an unpack job of the pool is pending or running.
C4_JoinBarrier ==
    (pc \in AfterPool \/ phase3 # "none") =>
        \A p \in Pkgs : job[p] \in {"none", "done", "failed"}

C4_Witness ==
    /\ pc = "scan"
    /\ Cardinality(packages_to_unpack) = 2
    /\ \A p \in packages_to_unpack : job[p] = "done" /\ invoked[p] = 1

\* the step of find_appropriate_cs1_shaders on a shader that is not in the
\* database: a mapping with another resolved name if the answer of the
\* similarity search is in the database, else the failure of the run
C5_Step ==
    (pc = "resolve" /\ idx <= Len(shaders) /\ Lookup(shader_db, shaders[idx]) = NoPkg) =>
        IF lastSim' # SimFail /\ Lookup(shader_db, lastSim') # NoPkg
        THEN /\ shader_mapping' = Append(shader_mapping,
                     <<shaders[idx], lastSim', DonorLocation(Lookup(shader_db, lastSim'))>>)
             /\ lastSim' # shaders[idx]
             /\ pc' = "resolve"
        ELSE /\ pc' = "failed"
             /\ exit' \in {"UnresolvableShader", "SimilarityFailed"}
             /\ shader_mapping' = shader_mapping

\* once resolution is over every shader of the batch has its mapping
C5_NoSkip ==
    pc \notin {"resolve", "failed"} =>
        \A i \in 1..Len(shaders) : shader_mapping[i][1] = shaders[i]

\* C5: a shader absent from the database gets a mapping with
\* original # resolved when the similarity search answers a name of the
\* database; when the search fails or answers a name that is not in the
\* database the run fails and no mapping is made for the shader; no shader
\* is skipped.
C5_FallbackChain == [][C5_Step]_vars /\ []C5_NoSkip

C5_Witness ==
    /\ pc = "stage"
    /\ \E i \in 1..Len(shader_mapping) :
         /\ shader_mapping[i][1] # shader_mapping[i][2]
         /\ Lookup(shader_db, shader_mapping[i][1]) = NoPkg
         /\ shader_mapping[i][1] \in simCalls

Rows(orig) == Cardinality({j \in 1..Len(shader_mapping) : shader_mapping[j][1] = orig})

\* C7: when the default-shader stage is over and the catalog package could
\* be located and unpacked, every referenced default shader has exactly
\* one mapping with original = resolved, the unfound ones at the catalog
\* package, and the run goes on to phase 3.
C7_DefaultsAttributed ==
    (catalog # "no" /\ pc \notin {"catalog_unpacking", "attribute"}
        /\ exit # "UnpackFailure") =>
        /\ pc \in {"phase3", "copy", "done", "failed"}
        /\ exit \in {"running", "ok", "ShaderFileMissing", "KeyError"}
        /\ \A d \in referenced :
             /\ Rows(d) = 1
             /\ \A j \in 1..Len(shader_mapping) :
                  shader_mapping[j][1] = d => shader_mapping[j][2] = d
        /\ \A i \in 1..Len(default_shaders) :
             \E j \in 1..Len(shader_mapping) :
                shader_mapping[j] = <<default_shaders[i], default_shaders[i],
                                      DonorLocation(well_known_asset)>>

\* the check of unpack_package: a call that finds the output directory
\* does not start the external unpacker
C8_Step ==
    /\ \A p \in Pkgs :
         (job[p] = "pending" /\ job'[p] # "pending" /\ Stem(p) \in tmpDirs /\ run' = run) =>
             (invoked' = invoked /\ job'[p] = "done")
    /\ (pc = "catalog" /\ pc' # "catalog" /\ Stem(well_known_asset) \in tmpDirs) =>
             invoked' = invoked

\* a package the external unpacker unpacked in an earlier run is not
\* unpacked again
C8_Rerun ==
    \A p \in unpackedOk : invoked[p] = 0

\* C8: unpack_package on a staged package whose unpacked-output directory
\* exists does not invoke the external unpacker, so a second run of the
\* unpack stage after a successful first one invokes it zero times.
C8_IdempotentUnpack == [][C8_Step]_vars /\ []C8_Rerun

C8_Witness ==
    /\ run = 2
    /\ pc = "join"
    /\ packages_to_unpack # {}
    /\ \A p \in packages_to_unpack :
         p \in unpackedOk /\ job[p] = "done" /\ invoked[p] = 0

\* C9: merging a material against the same donor a second time leaves
\* shaderParameters, shaderSamplerDefs and shaderSwitches as the first
\* merge left them.
C9_MergeIdempotent ==
    (mpc = "mats" /\ merges >= 2) =>
        /\ DOMAIN m_dst = DOMAIN m_once
        /\ \A f \in DOMAIN m_dst : m_dst[f] = m_once[f]

C9_Witness ==
    /\ mpc = "mats"
    /\ merges = 2
    /\ MatFields[3] \in DOMAIN m_dst
    /\ \A f \in DOMAIN m_in : m_once[f] # m_in[f]

\* C10: when an unpack job has failed the run does not enter the phases
\* after the pool, and it ends only when every submitted job has run to
\* completion: none is left queued or running, none is cancelled.
C10_FailureDrainsPool ==
    /\ (\E p \in Pkgs : job[p] = "failed") => pc \in {"stage", "join", "shutdown", "failed"}
    /\ (pc = "failed" \/ pc = "done") =>
          \A p \in Pkgs : job[p] \in {"none", "done", "failed"}
    /\ (pc = "failed" /\ exit = "UnpackFailure" /\ catalog = "no") =>
          \E p \in Pkgs : job[p] = "failed"

C10_Witness ==
    /\ pc = "shutdown"
    /\ exit = "UnpackFailure"
    /\ \E p, q \in Pkgs : job[p] = "failed" /\ job[q] \in {"pending", "unpacking"}

\* C11 as stated: when the source package of an asset is in neither D3D11
\* nor D3D11_us, that asset ends as Failed with an entry in the error log and
\* the batch driver keeps running (it is not ended by the missing file).
C11_MissingSourceAttributed ==
    fatal = "FileNotFoundError" =>
        /\ stage[cur] = "Failed"
        /\ \E i \in 1..Len(error_log) : error_log[i][1] = cur
        /\ ppc # "crashed"

\* the last lines a captured log of a failed port call can end with
FatalLines == {"FATAL: Error unpacking package",
               "FATAL: Error replacing shaders and materials",
               "FATAL: Error flipping texture",
               "FATAL: Error re-packing (build_collda_cs1.py)",
               "FATAL: Error re-packing (RunMe.bat)"}

\* C12: when the driver has gone through every asset of the batch, errors.txt
\* has been written iff some asset ended Failed; it holds exactly one entry
\* (asset name and captured log) for each Failed asset and none for an asset
\* that was finalized, skipped or stopped at the platform gate.
C12_ErrorReport ==
    ppc = "done" =>
        /\ (errors_txt # NoFile) <=> (\E a \in batch : stage[a] = "Failed")
        /\ \A a \in AssetNames :
             Cardinality({i \in 1..Len(errors_txt) : errors_txt[i][1] = a})
                = IF stage[a] = "Failed" THEN 1 ELSE 0
        /\ \A i \in 1..Len(errors_txt) :
             /\ Len(errors_txt[i][2]) > 0
             /\ errors_txt[i][2][Len(errors_txt[i][2])] \in FatalLines

C12_Witness ==
    /\ ppc = "done"
    /\ Len(errors_txt) = 1
    /\ \E a, b \in batch :
         /\ stage[a] = "Failed"
         /\ errors_txt[1][1] = a
         /\ stage[b] \in {"Finalized", "Skipped", "PlatformGateSkipped"}

\* C13 as stated: with the texture-flipping option disabled no port call runs
\* texconv.exe; with it enabled, an asset that got through the texture stage
\* had texconv.exe run for its textures.
C13_ToggleRespected ==
    ~flip_textures_vertically =>
        \A a \in AssetNames : flips[a] = 0 /\ "texconv.exe" \notin spawned[a]

\* C14: a port call for an asset whose package is already in the output
\* directory returns at once: it copies nothing into tmp_dir/src or the
\* output directory, runs no external program, stages no tool and adds
\* nothing to the error log or errors.txt; a package that a port call has
\* finalized stays in the output directory, so porting that asset again is
\* such a call.
C14_Step ==
    (ppc = "loop" /\ prun' = prun /\ assets' # assets /\ cur' \in out_dir) =>
        /\ ppc' = "loop"
        /\ stage'[cur'] = "Skipped"
        /\ \A b \in AssetNames \ {cur'} : stage'[b] = stage[b]
        /\ UNCHANGED <<out_dir, tmp_src, ported, spawned, flips, toolsStaged,
                       error_log, errors_txt, failedAt, fatal>>

C14_Kept ==
    \A a \in AssetNames :
        (stage[a] = "Finalized" \/ a \in ported) => a \in out_dir

C14_SkipIsNoOp == [][C14_Step]_vars /\ []C14_Kept

C14_Witness ==
    \E a \in batch :
        /\ a \in ported
        /\ prun > 1
        /\ stage[a] = "Skipped"
        /\ spawned[a] = {}

\* C15: when the loop over needed_pack_tools finds a tool missing, the run
\* ends there: build_collada_cs1.py and RunMe.bat are not run for that asset,
\* nothing of this run happens afterwards (no later asset is started), and
\* the asset is neither marked Failed nor entered into the error log.
C15_Step ==
    /\ (ppc = "tools" /\ toolsStaged'[cur] < NumPackTools) => ppc' = "exited"
    /\ ppc = "exited" => prun' = prun + 1

C15_Exited ==
    ppc = "exited" =>
        /\ fatal = "ToolMissing"
        /\ stage[cur] = "TexturesProcessed"
        /\ failedAt[cur] = ""
        /\ spawned[cur] \cap {"build_collada_cs1.py", "RunMe.bat"} = {}
        /\ cur \notin out_dir
        /\ \A i \in 1..Len(error_log) : error_log[i][1] # cur
        /\ \A b \in assets : stage[b] = "Pending" /\ spawned[b] = {}

C15_ToolMissingFatal == [][C15_Step]_vars /\ []C15_Exited

C15_Witness ==
    /\ ppc = "exited"
    /\ fatal = "ToolMissing"
    /\ assets # {}
    /\ toolsStaged[cur] = NumPackTools - 1

\* C16: whatever the batch and the order of its shaders, a shader whose name
\* is a key of the database is resolved without a call of the similarity
\* search, and its mapping row is (name, name, TMP_DIR/stem of db[name]).
C16_ExactMatchDeterministic ==
    \A i \in 1..Len(shaders) :
        (i <= Len(shader_mapping) /\ Lookup(shader_db, shaders[i]) # NoPkg) =>
            /\ shaders[i] \notin simCalls
            /\ shader_mapping[i] = <<shaders[i], shaders[i],
                                     DonorLocation(shader_db[shaders[i]])>>

C16_Witness ==
    /\ Len(shaders) = 2
    /\ Len(shader_mapping) >= 2
    /\ Lookup(shader_db, shaders[1]) = NoPkg
    /\ shaders[1] \in simCalls
    /\ Lookup(shader_db, shaders[2]) # NoPkg
    /\ shader_mapping[2][2] = shaders[2]
    /\ shader_mapping[1][2] = shaders[2]

\* C17 as stated: no unpack job is submitted to the pool before every donor
\* package of the batch is in the working directory, and when phase 2 ends
\* with SourcePackageNotFound no package has been unpacked in this run.
C17_StagedBeforeSubmit ==
    /\ \A p \in Pkgs :
         job[p] # "none" => packages_to_unpack \subseteq tmpFiles
    /\ (exit = "SourcePackageNotFound" /\ catalog = "no") =>
         \A p \in Pkgs : invoked[p] = 0 /\ job[p] \in {"none", "pending"}

\* C18 as stated: merge_mats on a target without shaderSwitches raises no
\* error, merges shaderParameters and shaderSamplerDefs and leaves the target
\* without shaderSwitches; on a target with shaderSwitches it merges that
\* field as well.
C18_SwitchesOptional ==
    /\ (MatFields[3] \notin DOMAIN m_in /\ (merges >= 1 \/ mpc = "KeyError")) =>
          /\ mpc # "KeyError"
          /\ m_once[MatFields[1]] = merge_dicts(m_in[MatFields[1]], m_src[MatFields[1]])
          /\ m_once[MatFields[2]] = merge_dicts(m_in[MatFields[2]], m_src[MatFields[2]])
          /\ MatFields[3] \notin DOMAIN m_once
    /\ (MatFields[3] \in DOMAIN m_in /\ merges >= 1) =>
          /\ MatFields[3] \in DOMAIN m_once
          /\ m_once[MatFields[3]] = merge_dicts(m_in[MatFields[3]], m_src[MatFields[3]])

\* C19: at any moment at most MaxWorkers external unpack invocations of the
\* pool are in progress, however many packages are staged; a package handed
\* to a worker is never handed out again in the same run, the unpacker is
\* started for it at most once, and when the pool has been joined every
\* package of the batch has been through a worker.
C19_Step ==
    \A p \in Pkgs :
        (run' = run /\ job[p] \notin {"none", "pending"}) => job'[p] # "pending"

C19_Bounded ==
    /\ Busy <= MaxWorkers
    /\ \A p \in Pkgs : invoked[p] <= 1
    /\ \A p \in Pkgs : job[p] # "none" => p \in packages_to_unpack
    /\ pc \in AfterPool => \A p \in packages_to_unpack : job[p] = "done"

C19_WorkerBound == [][C19_Step]_vars /\ []C19_Bounded

C19_Witness ==
    /\ Busy = MaxWorkers
    /\ \E p \in packages_to_unpack : job[p] = "pending"
    /\ Cardinality(packages_to_unpack) > MaxWorkers

\* C20: where /proc/self exists, a port call whose unpack and material
\* replacement succeeded returns right after MaterialsReplaced without an
\* error: no port call of the run flips a texture, stages a pack tool, runs
\* build_collada_cs1.py or RunMe.bat or copies to the output directory, and
\* the asset gets no entry in the error log.
C20_Step ==
    /\ (linux /\ ppc = "gate") =>
          /\ stage[cur] = "MaterialsReplaced"
          /\ stage'[cur] = "PlatformGateSkipped"
          /\ ppc' = "loop"
          /\ UNCHANGED <<error_log, flips, toolsStaged, spawned, tmp_src>>
    /\ linux => out_dir' = out_dir

C20_Gate ==
    linux =>
        \A a \in AssetNames :
            /\ flips[a] = 0
            /\ toolsStaged[a] = 0
            /\ spawned[a] \subseteq {"ed8pkg2gltf.py", "replace_shaders_and_mats_cs1.py"}
            /\ stage[a] \notin {"TexturesProcessed", "Repacked", "Finalized"}
            /\ a \notin ported
            /\ stage[a] = "PlatformGateSkipped" =>
                 /\ failedAt[a] = ""
                 /\ \A i \in 1..Len(error_log) : error_log[i][1] # a

C20_PlatformGate == [][C20_Step]_vars /\ []C20_Gate

C20_Witness ==
    /\ linux
    /\ ppc = "done"
    /\ errors_txt = NoFile
    /\ \E a \in batch :
         /\ stage[a] = "PlatformGateSkipped"
         /\ a \notin out_dir
         /\ spawned[a] = {"ed8pkg2gltf.py", "replace_shaders_and_mats_cs1.py"}

\* the stage changes a port call can make
StageEdges ==
    {<<"Pending", "Staged">>, <<"Pending", "Skipped">>,
     <<"Staged", "Unpacked">>, <<"Staged", "Failed">>,
     <<"Unpacked", "MaterialsReplaced">>, <<"Unpacked", "Failed">>,
     <<"MaterialsReplaced", "PlatformGateSkipped">>,
     <<"MaterialsReplaced", "TexturesProcessed">>, <<"MaterialsReplaced", "Failed">>,
     <<"TexturesProcessed", "Repacked">>, <<"TexturesProcessed", "Failed">>,
     <<"Repacked", "Finalized">>}

\* C21 as amended: within a run every asset job changes stage only along
\* Pending, Staged, Unpacked, MaterialsReplaced, (PlatformGateSkipped or
\* TexturesProcessed), Repacked, Finalized, or to Failed from a stage that
\* is not terminal; the package is copied to the output directory only from
\* Repacked, after build_collada_cs1.py and RunMe.bat have run; a port call
\* that has returned has left its job in a terminal state, Failed having an
\* entry with the log in the error log; a run ended by a missing pack tool
\* or a missing source package leaves the job at TexturesProcessed or at
\* Pending.
C21_Step ==
    /\ \A a \in AssetNames :
         (prun' = prun /\ stage'[a] # stage[a]) =>
            /\ <<stage[a], stage'[a]>> \in StageEdges
            /\ a = cur'
    /\ out_dir' # out_dir =>
         /\ out_dir' = out_dir \cup {cur}
         /\ stage[cur] = "Repacked"
         /\ stage'[cur] = "Finalized"
         /\ {"build_collada_cs1.py", "RunMe.bat"} \subseteq spawned[cur]

C21_Ended ==
    /\ (ppc \in {"loop", "done"} /\ cur # NoAsset) => stage[cur] \in Returned
    /\ ppc = "exited" => stage[cur] = "TexturesProcessed"
    /\ ppc = "crashed" => stage[cur] = "Pending"
    /\ \A a \in AssetNames :
         stage[a] = "Failed" =>
            \E i \in 1..Len(error_log) :
               /\ error_log[i][1] = a
               /\ error_log[i][2][Len(error_log[i][2])] \in FatalLines

C22_Step ==
    pc = "stage" =>
        /\ (searched' \ searched) \cap tmpFiles = {}
        /\ exit' = "SourcePackageNotFound" =>
              /\ searched' # searched
              /\ tmpFiles' = tmpFiles
        /\ \A p \in Pkgs :
              (job[p] = "none" /\ job'[p] = "pending") =>
                  /\ tmpFiles' = tmpFiles \cup {p}
                  /\ p \in tmpFiles => (tmpFiles' = tmpFiles /\ searched' = searched)

C22_Kept ==
    \A p \in Pkgs : job[p] # "none" => p \in tmpFiles

C23_LoadedDatabase ==
    mpc = "load_done" =>
        LET good(n) == {i \in 2..Len(csv_rows) :
                           /\ Len(csv_rows[i]) >= 2
                           /\ csv_rows[i][1] = n
                           /\ csv_rows[i][2] \notin {"", "None"}}
        IN /\ \A n \in CsvNames \cup DOMAIN database :
                 n \in DOMAIN database <=> good(n) # {}
           /\ \A n \in DOMAIN database :
                 /\ database[n] \notin {"", "None"}
                 /\ \E i \in good(n) :
                       /\ database[n] = csv_rows[i][2]
                       /\ \A j \in good(n) : j <= i

C23_Witness ==
    /\ mpc = "load_done"
    /\ Len(csv_rows) = 3
    /\ csv_rows[1] = <<"sX", "pkgB.pkg">>
    /\ csv_rows[2] = <<"sY", "None">>
    /\ csv_rows[3] = <<"sY", "pkgA.pkg", "x">>
    /\ DOMAIN database = {"sY"}
    /\ database["sY"] = "pkgA.pkg"

\* the donorLocations of the rows find_appropriate_cs1_shaders has appended
DonorLocations ==
    {shader_mapping[i][3] : i \in 1..Len(shader_mapping)}

C27_DistinctOutputDirs ==
    \A p, q \in Packages :
        (p # q /\ job[p] # "none" /\ job[q] # "none") =>
            /\ Stem(p) # Stem(q)
            /\ Stem(p) = Stem(q) => invoked[p] + invoked[q] <= 1

\* ------------------------------------------------------------------------
\* C26: a resolution failure ends the run before anything is staged,
\* unpacked, copied or written
\* ------------------------------------------------------------------------
ResolutionFailures == {"UnresolvableShader", "SimilarityFailed"}

\* what a run leaves behind outside its own memory
RunEffects == <<tmpFiles, tmpDirs, job, invoked, searched, catalog, phase3,
                default_shaders, referenced>>

\* during resolution nothing is staged, unpacked, copied or written; the
\* loop leaves only to the with block, after the last shader, or to the
\* exit, with one of the two resolution failures; after such an exit the
\* working directory stays as it is
C26_Step ==
    /\ pc = "resolve" =>
          /\ pc' \in {"resolve", "stage", "failed"}
          /\ UNCHANGED RunEffects
          /\ pc' = "stage" => idx > Len(shaders) /\ exit' = "running"
          /\ pc' = "failed" => exit' \in ResolutionFailures
    /\ exit \in ResolutionFailures => UNCHANGED <<tmpFiles, tmpDirs>>

C26_Clean ==
    /\ exit \in ResolutionFailures =>
          /\ pc = "failed"
          /\ \A p \in Packages : job[p] = "none" /\ invoked[p] = 0
          /\ searched = {}
          /\ catalog = "no"
          /\ phase3 = "none"
    /\ (\E p \in Packages : job[p] # "none") \/ searched # {} \/ phase3 # "none" =>
          /\ Len(shader_mapping) >= Len(shaders)
          /\ \A i \in 1..Len(shaders) : shader_mapping[i][1] = shaders[i]

\* C26: if a shader of the batch is unresolvable or its similarity search
\* fails, the run ends before any package is staged or unpacked, any shader
\* file copied, or the mapping file or the metadata written: the whole batch
\* is resolved before the first staging action
C26_ResolveBeforeStaging == [][C26_Step]_vars /\ []C26_Clean

\* the second shader of the batch fails after the first one was resolved
\* and its package entered the set to unpack
C26_Witness ==
    /\ exit \in ResolutionFailures
    /\ idx = 2
    /\ packages_to_unpack # {}
    /\ tmpFiles = {}

\* C30 as stated: whenever the batch run has terminated, by the end of the
\* loop or by the missing-tool exit while a later asset is being ported,
\* every asset that ended Failed is listed with its captured log in the
\* written errors.txt.
C30_NoLogLost ==
    ppc \in {"done", "exited"} =>
        \A a \in batch :
            stage[a] = "Failed" =>
                /\ errors_txt # NoFile
                /\ \E i \in 1..Len(errors_txt) :
                     /\ errors_txt[i][1] = a
                     /\ Len(errors_txt[i][2]) > 0

\* ------------------------------------------------------------------------
\* replace_materials: frame, failure and completion
\* ------------------------------------------------------------------------

\* the shader a target material referenced when the metadata was read
ReadShader(m) == removeprefix(mats_read[m]["shader"])

\* C25 as stated: in the written metadata every material whose shader (prefix
\* stripped) is not an original name of the mappings is as it was read, and a
\* mapped material whose replacement equals its current shader keeps its
\* shader reference as it was read.
C25_FrameOfReplace ==
    rpc = "done" =>
        \A m \in MatNames :
            LET shader_map == ShaderMapOf(mapping_rows) IN
            /\ ReadShader(m) \notin DOMAIN shader_map => written[m] = mats_read[m]
            /\ (ReadShader(m) \in DOMAIN shader_map /\ shader_map[ReadShader(m)][1] = ReadShader(m))
                  => written[m]["shader"] = mats_read[m]["shader"]

\* the metadata file changes only in the step that ends the call
C28_Step == metadata_file' # metadata_file => rpc = "merge" /\ rpc' = "done"

C28_Untouched ==
    rexit = "ShaderFileMissing" =>
        /\ rpc = "failed"
        /\ metadata_file = mats_read
        /\ written = NoTable

\* C28: when replace_materials ends with ShaderFileMissing, the metadata file
\* on disk is as it was before the call, however many groups had been merged
\* in memory: no partially merged table is written back.
C28_FailureWritesNothing == [][C28_Step]_vars /\ []C28_Untouched

\* the second group's shader file is missing after the first group was
\* merged into the table in memory
C28_Witness ==
    /\ rexit = "ShaderFileMissing"
    /\ merged >= 1
    /\ \E m \in MatNames : mats[m]["shaderParameters"] # mats_read[m]["shaderParameters"]
    /\ metadata_file = mats_read

\* C29 as stated: ShaderFileMissing is the only fatal outcome of the merge
\* stage of replace_materials; when the shader file of every group exists a
\* donor material is found for each group, every merge is defined and the
\* call ends by writing the metadata back.
C29_OnlyShaderFileMissing ==
    (rscript = "cs1" /\ rpc = "failed") => rexit = "ShaderFileMissing"

Init == PipeInit /\ MergeIdle /\ PortIdle /\ ReplIdle
Next == PipeNext
Spec == Init /\ [][Next]_vars

InitMerge == MergeInit /\ PipeIdle /\ PortIdle /\ ReplIdle
SpecMerge == InitMerge /\ [][MergeNext]_vars

InitPool == SameStemInit /\ MergeIdle /\ PortIdle /\ ReplIdle
SpecPool == InitPool /\ [][PoolNext]_vars

InitPort == PortInit /\ PipeIdle /\ MergeIdle /\ ReplIdle
SpecPort == InitPort /\ [][PortNext]_vars

InitReplace == ReplInit /\ PipeIdle /\ MergeIdle /\ PortIdle
SpecReplace == InitReplace /\ [][ReplNext]_vars

====
